---- MODULE Spec2Model ----
\* Model of the BFBC (Bytes Frequency-Based Chunking) boundary detector of
\* src/src/bfbc.rs: the constructor, find_boundary (feed) and reset, with the
\* history variables needed to state the detector's contract.
EXTENDS Integers, Sequences, FiniteSets, TLC

\* ---------------------------------------------------------------- bounds
\* Longest buffer handed to one find_boundary call.
MaxBuf == 3
\* Most bytes ingested between two resets (caps pos, a usize in the code).
MaxStream == 3
\* Longest pair sequence handed to the constructor.
MaxPairs == 2
\* Largest min_chunk_size handed to the constructor.
MaxMin == 3

\* ------------------------------------------------------- program constants
\* [0_u8; 8192]: the number of cells of the bitmap.
BitmapCells == 8192
\* u16 window: 2^16 values.
U16 == 65536
\* u8 cell / byte: 2^8 values.
U8 == 256

\* Byte values the inputs are drawn from (a subset of 0..255).
Bytes == {0, 65, 66, 67}
\* Pairs the constructor's argument is drawn from; <<0,65>> has a zero high
\* byte and ends with the byte <<65,66>> starts with.
PairPool == {<<65, 66>>, <<0, 65>>}

SeqsUpTo(S, n) == UNION {[1..k -> S] : k \in 0..n}
PairSeqs == SeqsUpTo(PairPool, MaxPairs)
Buffers == SeqsUpTo(Bytes, MaxBuf)
Range(s) == {s[k] : k \in 1..Len(s)}

\* ------------------------------------------------------------ bit arithmetic
RECURSIVE Pow2(_)
Pow2(n) == IF n = 0 THEN 1 ELSE 2 * Pow2(n - 1)

\* a | b on w-bit unsigned values.
RECURSIVE BitOr(_, _, _)
BitOr(a, b, w) ==
    IF w = 0 THEN 0
    ELSE IF a = 0 THEN b % Pow2(w)
    ELSE IF b = 0 THEN a % Pow2(w)
    ELSE (IF a % 2 = 1 \/ b % 2 = 1 THEN 1 ELSE 0)
         + 2 * BitOr(a \div 2, b \div 2, w - 1)

\* a & b on w-bit unsigned values.
RECURSIVE BitAnd(_, _, _)
BitAnd(a, b, w) ==
    IF w = 0 \/ a = 0 \/ b = 0 THEN 0
    ELSE (IF a % 2 = 1 /\ b % 2 = 1 THEN 1 ELSE 0)
         + 2 * BitAnd(a \div 2, b \div 2, w - 1)

\* a << n on values of the given modulus (bits shifted out are dropped).
Shl(a, n, modulus) == (a * Pow2(n)) % modulus

\* Option<usize>
None == [some |-> FALSE, idx |-> 0]
Some(i) == [some |-> TRUE, idx |-> i]

\* ------------------------------------------------------------------ the code
\* (b1 as u16) << 8 | b2 as u16
PackPair(p) == BitOr(Shl(p[1], 8, U16), p[2], 16)

\* byte_pair_to_bitfield_index with cells of 4 bits.
byte_pair_to_bitfield_index_Div4(val) == <<val \div 4, val % 8>>

\* byte_pair_to_bitfield_index with 4 bit positions to a cell.
byte_pair_to_bitfield_index_Mod4(val) == <<val \div 8, val % 4>>

byte_pair_to_bitfield_index(val) == <<val \div 8, val % 8>>

\* The indices of the bitmap's cells.
CellIndices == 0..(BitmapCells - 1)

\* The [u8; 8192] bitmap is held sparsely: a function from the cells that were
\* written to their values, every other cell of 0..8191 holding its initial 0.
\* Cell is the read arr[i] and WriteCell the write arr[i] = v.
Cell(arr, i) == IF i \in DOMAIN arr THEN arr[i] ELSE 0
WriteCell(arr, i, v) ==
    [c \in (DOMAIN arr) \cup {i} |-> IF c = i THEN v ELSE arr[c]]

\* a ^ b on w-bit unsigned values.
RECURSIVE BitXor(_, _, _)
BitXor(a, b, w) ==
    IF w = 0 THEN 0
    ELSE (IF a % 2 # b % 2 THEN 1 ELSE 0)
         + 2 * BitXor(a \div 2, b \div 2, w - 1)

\* SetPair with ^= in place of |=.
SetPair_Toggle(arr, p) ==
    LET ix == byte_pair_to_bitfield_index(PackPair(p))
    IN  WriteCell(arr, ix[1], BitXor(Cell(arr, ix[1]), Shl(1, ix[2], U8), 8))

\* One step of the constructor's for_each: frequent_pair_array[i1] |= 0b1 << i2
SetPair(arr, p) ==
    LET ix == byte_pair_to_bitfield_index(PackPair(p))
    IN  WriteCell(arr, ix[1], BitOr(Cell(arr, ix[1]), Shl(1, ix[2], U8), 8))

\* The constructor's fold over frequent_byte_pairs, in order.
RECURSIVE BuildBitmap(_, _)
BuildBitmap(arr, ps) ==
    IF ps = <<>> THEN arr
    ELSE BuildBitmap(SetPair(arr, Head(ps)), Tail(ps))

\* [0_u8; 8192]
EmptyBitmap == [c \in {} |-> 0]

\* state: Default::default()
DefaultState == [pos |-> 0, window |-> 0]

is_popular_pair(arr, val) ==
    LET ix == byte_pair_to_bitfield_index(val)
    IN  BitAnd(Cell(arr, ix[1]), Shl(1, ix[2], U8), 8) # 0

\* reset that leaves window as it is.
reset_KeepWindow(st) == [pos |-> 0, window |-> st.window]

\* reset that leaves pos as it is.
reset_KeepPos(st) == [pos |-> st.pos, window |-> 0]

reset(st) == [pos |-> 0, window |-> 0]

\* a >> n
Shr(a, n) == a \div Pow2(n)

\* ingest that packs the new byte into the high 8 bits.
ingest_Swapped(st, b) ==
    [pos |-> st.pos + 1, window |-> BitOr(Shr(st.window, 8), Shl(b, 8, U16), 16)]

\* ingest that rotates window left by 8 bits in place of shifting it.
ingest_Rotate(st, b) ==
    [pos |-> st.pos + 1,
     window |-> BitOr(BitOr(Shl(st.window, 8, U16), Shr(st.window, 8), 16), b, 16)]

\* ingest on a window wider than 16 bits (nothing is shifted out).
ingest_WideWindow(st, b) ==
    [pos |-> st.pos + 1, window |-> st.window * U8 + b]

ingest(st, b) ==
    [pos |-> st.pos + 1, window |-> BitOr(Shl(st.window, 8, U16), b, 16)]

\* AtBoundary without the minimum-size gate.
AtBoundary_NoMinSize(arr, m, st) == is_popular_pair(arr, st.window)

\* AtBoundary with the gate off by one (pos > min_chunk_size).
AtBoundary_StrictGate(arr, m, st) ==
    st.pos > m /\ is_popular_pair(arr, st.window)

\* MinSizeReached with the gate one byte early.
MinSizeReached_OneEarly(m, st) == st.pos + 1 >= m

\* The outer test made after each ingest:
\* if self.state.pos >= self.min_chunk_size
MinSizeReached(m, st) == st.pos >= m

\* The two nested tests made after each ingest:
\* if self.state.pos >= self.min_chunk_size { if self.is_popular_pair(window) ..
AtBoundary(arr, m, st) ==
    MinSizeReached(m, st) /\ is_popular_pair(arr, st.window)

\* The loop of find_boundary from index i (0-based) on. Besides the state and
\* the result it yields the trace of the run: ingested, the <<index, byte>>
\* handed to ingest in order, and tested, the [idx, window] at which
\* is_popular_pair was evaluated.
RECURSIVE find_boundary_loop(_, _, _, _, _)
find_boundary_loop(arr, m, st, buf, i) ==
    IF i >= Len(buf)
    THEN [state |-> st, ret |-> None, ingested |-> <<>>, tested |-> <<>>]
    ELSE LET s1 == ingest(st, buf[i + 1])
             ing == <<<<i, buf[i + 1]>>>>
             tst == IF MinSizeReached(m, s1)
                    THEN <<[idx |-> i, window |-> s1.window]>>
                    ELSE <<>>
         IN  IF AtBoundary(arr, m, s1)
             THEN [state |-> s1, ret |-> Some(i), ingested |-> ing,
                   tested |-> tst]
             ELSE LET r == find_boundary_loop(arr, m, s1, buf, i + 1)
                  IN  [r EXCEPT !.ingested = ing \o @, !.tested = tst \o @]

\* find_boundary that goes on ingesting after the first match.
RECURSIVE IngestAll(_, _)
IngestAll(st, buf) ==
    IF buf = <<>> THEN st ELSE IngestAll(ingest(st, Head(buf)), Tail(buf))

find_boundary_NoEarlyReturn(arr, m, st, buf) ==
    [find_boundary_loop(arr, m, st, buf, 0) EXCEPT !.state = IngestAll(st, buf)]

\* find_boundary whose loop stops one byte short.
find_boundary_SkipLast(arr, m, st, buf) ==
    find_boundary_loop(arr, m, st, SubSeq(buf, 1, Len(buf) - 1), 0)

\* find_boundary that takes an empty buffer for the end of the stream.
find_boundary_EmptyResets(arr, m, st, buf) ==
    IF buf = <<>>
    THEN [find_boundary_loop(arr, m, st, buf, 0) EXCEPT !.state = reset(st)]
    ELSE find_boundary_loop(arr, m, st, buf, 0)

\* find_boundary that goes over the buffer a second time after a first pass
\* without a boundary.
find_boundary_TwoPasses(arr, m, st, buf) ==
    find_boundary_loop(arr, m, st, buf \o buf, 0)

\* find_boundary that starts counting anew when it reports a boundary.
find_boundary_ZeroesPosOnBoundary(arr, m, st, buf) ==
    LET r == find_boundary_loop(arr, m, st, buf, 0)
    IN  IF r.ret.some THEN [r EXCEPT !.state.pos = 0] ELSE r

\* find_boundary that resets the state itself when it reports a boundary.
find_boundary_ResetsOnBoundary(arr, m, st, buf) ==
    LET r == find_boundary_loop(arr, m, st, buf, 0)
    IN  IF r.ret.some THEN [r EXCEPT !.state = reset(r.state)] ELSE r

\* find_boundary with a window that does not outlive the call.
find_boundary_LocalWindow(arr, m, st, buf) ==
    find_boundary_loop(arr, m, [st EXCEPT !.window = 0], buf, 0)

find_boundary(arr, m, st, buf) == find_boundary_loop(arr, m, st, buf, 0)

\* -------------------------------------------------------------------- state
VARIABLES
    phase,                \* "init", "live" or "panicked" (the assert failed)
    frequent_byte_pairs,  \* the bitmap
    min_chunk_size,
    state,                \* [pos, window]
    pairSet,              \* history: the set of pairs given to the constructor
    argMin,               \* history: the min_chunk_size given to the constructor
    hist,                 \* history: bytes consumed since the last reset
    last,                 \* history: the last operation
    data,                 \* history: the buffer of the last find_boundary call
    pre,                  \* history: state before the last call
    ret,                  \* history: what the last find_boundary call returned
    boundaries,           \* history: positions in hist of reported boundaries
    shadow,               \* a detector made by the constructor at each reset
    shadowRet,
    protocol,             \* history: "start" while the caller has followed the
                          \* protocol and cut no chunk yet, "resumed" once it
                          \* has cut a chunk and reset, "broken" once it has not
                          \* followed the protocol
    cutByte,              \* history: after a reset that follows a boundary,
                          \* <<the byte at that boundary>>; <<>> otherwise
    sinceCut,             \* history: bytes consumed since the most recent of
                          \* construction, reset and reported boundary
    chunkLen,             \* history: length of the chunk the last boundary cut
    run,                  \* history: [ingested, tested] of the last
                          \* find_boundary call
    ingests               \* history: calls of ingest since the most recent of
                          \* construction and reset

vars == <<phase, frequent_byte_pairs, min_chunk_size, state, pairSet, argMin,
          hist, last,
          data, pre, ret, boundaries, shadow, shadowRet, protocol, cutByte,
          sinceCut, chunkLen, run, ingests>>

\* The trace of no call.
NoRun == [ingested |-> <<>>, tested |-> <<>>]

Init ==
    /\ phase = "init"
    /\ frequent_byte_pairs = EmptyBitmap
    /\ min_chunk_size = 0
    /\ state = DefaultState
    /\ pairSet = {}
    /\ argMin = 0
    /\ hist = <<>>
    /\ last = "none"
    /\ data = <<>>
    /\ pre = DefaultState
    /\ ret = None
    /\ boundaries = <<>>
    /\ shadow = DefaultState
    /\ shadowRet = None
    /\ protocol = "start"
    /\ cutByte = <<>>
    /\ sinceCut = 0
    /\ chunkLen = 0
    /\ run = NoRun
    /\ ingests = 0

\* new with the assertion off by one (min_chunk_size >= 1).
new_AssertAtLeastOne(ps, m) ==
    /\ phase = "init"
    /\ argMin' = m
    /\ IF m >= 1
       THEN /\ phase' = "live"
            /\ frequent_byte_pairs' = BuildBitmap(EmptyBitmap, ps)
            /\ min_chunk_size' = m
            /\ state' = DefaultState
            /\ pairSet' = Range(ps)
            /\ last' = "new"
       ELSE /\ phase' = "panicked"
            /\ UNCHANGED <<frequent_byte_pairs, min_chunk_size, state, pairSet,
                           last>>
    /\ UNCHANGED <<hist, data, pre, ret, boundaries, shadow, shadowRet, protocol,
                   cutByte, sinceCut, chunkLen, run, ingests>>

\* BFBCChunker::new: the assertion, then the bitmap and the default state.
new(ps, m) ==
    /\ phase = "init"
    /\ argMin' = m
    /\ IF m >= 2
       THEN /\ phase' = "live"
            /\ frequent_byte_pairs' = BuildBitmap(EmptyBitmap, ps)
            /\ min_chunk_size' = m
            /\ state' = DefaultState
            /\ pairSet' = Range(ps)
            /\ last' = "new"
       ELSE /\ phase' = "panicked"
            /\ UNCHANGED <<frequent_byte_pairs, min_chunk_size, state, pairSet,
                           last>>
    /\ UNCHANGED <<hist, data, pre, ret, boundaries, shadow, shadowRet, protocol,
                   cutByte, sinceCut, chunkLen, run, ingests>>

\* What the caller takes a result to have consumed of the buffer d.
Consumed(r, d) == IF r.some THEN r.idx + 1 ELSE Len(d)

AfterBoundary == last = "feed" /\ ret.some

\* The collaborator's protocol: feed; on a boundary cut the chunk, reset once,
\* resume with the next byte.
Followed == protocol # "broken"

\* ChunkerImpl::find_boundary on the buffer d.
Feed(d) ==
    /\ phase = "live"
    /\ Len(hist) + Len(d) <= MaxStream
    /\ \E r \in {find_boundary(frequent_byte_pairs, min_chunk_size, state, d)},
          s \in {find_boundary(frequent_byte_pairs, min_chunk_size, shadow, d)} :
          \E n \in {Consumed(r.ret, d)} :
             /\ state' = r.state
             /\ ret' = r.ret
             /\ shadow' = s.state
             /\ shadowRet' = s.ret
             /\ hist' = hist \o SubSeq(d, 1, n)
             /\ boundaries' = IF r.ret.some
                              THEN Append(boundaries, Len(hist) + n)
                              ELSE boundaries
             /\ sinceCut' = IF r.ret.some THEN 0 ELSE sinceCut + n
             /\ chunkLen' = IF r.ret.some THEN sinceCut + n ELSE 0
             /\ run' = [ingested |-> r.ingested, tested |-> r.tested]
             /\ ingests' = ingests + Len(r.ingested)
    /\ pre' = state
    /\ data' = d
    /\ last' = "feed"
    /\ protocol' = IF AfterBoundary THEN "broken" ELSE protocol
    /\ cutByte' = <<>>
    /\ UNCHANGED <<phase, frequent_byte_pairs, min_chunk_size, pairSet, argMin>>

\* reset that puts a default detector in place of self (empty bitmap).
Reset_WholeDetector ==
    /\ phase = "live"
    /\ state' = reset(state)
    /\ frequent_byte_pairs' = EmptyBitmap
    /\ shadow' = DefaultState
    /\ hist' = <<>>
    /\ boundaries' = <<>>
    /\ last' = "reset"
    /\ protocol' = IF Followed /\ AfterBoundary THEN "resumed" ELSE "broken"
    /\ cutByte' = IF AfterBoundary THEN <<data[ret.idx + 1]>> ELSE <<>>
    /\ sinceCut' = 0
    /\ data' = <<>>
    /\ pre' = state
    /\ ret' = None
    /\ shadowRet' = None
    /\ chunkLen' = 0
    /\ run' = NoRun
    /\ ingests' = 0
    /\ UNCHANGED <<phase, min_chunk_size, pairSet, argMin>>

\* ChunkerImpl::reset; the record of the last find_boundary call is dropped.
Reset ==
    /\ phase = "live"
    /\ state' = reset(state)
    /\ shadow' = DefaultState
    /\ hist' = <<>>
    /\ boundaries' = <<>>
    /\ last' = "reset"
    /\ protocol' = IF Followed /\ AfterBoundary THEN "resumed" ELSE "broken"
    /\ cutByte' = IF AfterBoundary THEN <<data[ret.idx + 1]>> ELSE <<>>
    /\ sinceCut' = 0
    /\ data' = <<>>
    /\ pre' = state
    /\ ret' = None
    /\ shadowRet' = None
    /\ chunkLen' = 0
    /\ run' = NoRun
    /\ ingests' = 0
    /\ UNCHANGED <<phase, frequent_byte_pairs, min_chunk_size, pairSet, argMin>>

Next ==
    \/ \E ps \in PairSeqs, m \in 0..MaxMin : new(ps, m)
    \/ \E d \in Buffers : Feed(d)
    \/ Reset

Spec == Init /\ [][Next]_vars

\* ------------------------------------------------------------------ claims
Min(S) == CHOOSE x \in S : \A y \in S : x <= y
Live == phase = "live"
Fed == Live /\ last = "feed"

\* The bytes consumed since the last reset before the last find_boundary call.
PreHist == SubSeq(hist, 1, Len(hist) - Consumed(ret, data))

\* The byte ingested immediately before data[i] (i counted from 0 as in the code).
PrevByte(i) == IF i = 0 THEN PreHist[Len(PreHist)] ELSE data[i]

\* The indices of data at which the contract asks for a boundary.
Candidates ==
    {i \in 0..(Len(data) - 1) :
        /\ pre.pos + i + 1 >= min_chunk_size
        /\ <<PrevByte(i), data[i + 1]>> \in pairSet}

\* C1: find_boundary returns the least index i of data with pos + i + 1 >=
\* min_chunk_size and (byte ingested before data[i], data[i]) in the pair set,
\* and no boundary exactly when there is none; with the pair set {(0x41,0x42)}
\* and min_chunk_size 2 a fresh detector returns 1 on [0x41,0x42] and no
\* boundary on [0x41,0x43].
C1_LeastIndex ==
    Fed =>
        /\ ret = IF Candidates = {} THEN None ELSE Some(Min(Candidates))
        /\ (pairSet = {<<65, 66>>} /\ min_chunk_size = 2 /\ pre = DefaultState)
               => /\ data = <<65, 66>> => ret = Some(1)
                  /\ data = <<65, 67>> => ret = None

C1_Witness ==
    /\ Fed /\ pairSet = {<<65, 66>>} /\ min_chunk_size = 2
    /\ pre = DefaultState /\ data = <<65, 66>> /\ ret = Some(1)

\* The boundaries (positions in the stream, counted from 1) reported when the
\* stream is fed in one buffer and, after each boundary, the bytes that follow
\* it are fed in one buffer again.
RECURSIVE WholeRun(_, _, _, _, _)
WholeRun(arr, m, st, rest, off) ==
    IF rest = <<>> THEN <<>>
    ELSE LET r == find_boundary(arr, m, st, rest)
             at == off + r.ret.idx + 1
         IN  IF r.ret.some
             THEN <<at>> \o WholeRun(arr, m, r.state,
                                     SubSeq(rest, r.ret.idx + 2, Len(rest)), at)
             ELSE <<>>

\* C2: however the bytes consumed since the last reset were cut into buffers,
\* the boundaries reported are those of feeding them in one buffer; a frequent
\* pair whose bytes fall in two calls is reported at offset 0 of the later one.
C2_SplitInvariance ==
    Live =>
        /\ boundaries = WholeRun(frequent_byte_pairs, min_chunk_size,
                                 DefaultState, hist, 0)
        /\ (/\ last = "feed" /\ data # <<>> /\ PreHist # <<>>
            /\ pre.pos + 1 >= min_chunk_size
            /\ <<PreHist[Len(PreHist)], data[1]>> \in pairSet) => ret = Some(0)

C2_Witness ==
    /\ Fed /\ ret = Some(0) /\ PreHist # <<>>
    /\ <<PreHist[Len(PreHist)], data[1]>> \in pairSet
    /\ Len(boundaries) = 2

\* C3: when find_boundary reports a boundary, at least min_chunk_size bytes
\* were ingested since the last reset or construction, the boundary byte
\* included, even if the first min_chunk_size - 1 bytes end with a frequent pair.
C3_MinimumSize == (Fed /\ ret.some) => Len(hist) >= min_chunk_size

C3_Witness ==
    /\ Fed /\ ~ret.some /\ Len(hist) = min_chunk_size - 1 /\ Len(hist) >= 2
    /\ <<hist[Len(hist) - 1], hist[Len(hist)]>> \in pairSet

\* C4: after reset pos = 0 and window = 0; from then on the detector returns
\* what a freshly constructed detector (shadow) returns on the same calls and
\* is in the same state; the pair of the last byte before the reset and the
\* first byte after it is not reported.
C4_ResetIsFresh ==
    Live =>
        /\ last = "reset" =>
              /\ state.pos = 0 /\ state.window = 0
              /\ \A d \in Buffers :
                    find_boundary(frequent_byte_pairs, min_chunk_size, state,
                                  d).ret # Some(0)
        /\ state = shadow
        /\ last = "feed" => ret = shadowRet

C4_Witness ==
    /\ Live /\ last = "reset" /\ cutByte # <<>>
    /\ \E x \in Bytes : <<cutByte[1], x>> \in pairSet

\* C5: while the caller follows the protocol, every chunk cut at a reported
\* boundary holds at least min_chunk_size bytes.
C5_ChunkAtLeastMin ==
    (Fed /\ Followed /\ ret.some) => chunkLen >= min_chunk_size

C5_Witness ==
    Fed /\ protocol = "resumed" /\ ret.some /\ chunkLen = min_chunk_size

\* C6: a find_boundary call that reports a boundary at index i leaves pos at its
\* value before the call plus i + 1 and window at the pair ending at data[i];
\* the bytes after data[i] have no effect on the state.
C6_StopsAtBoundary ==
    (Fed /\ ret.some) =>
        /\ state.pos = pre.pos + ret.idx + 1
        /\ state.window = U8 * PrevByte(ret.idx) + data[ret.idx + 1]
        /\ state = find_boundary(frequent_byte_pairs, min_chunk_size, pre,
                                 SubSeq(data, 1, ret.idx + 1)).state

C6_Witness == Fed /\ ret.some /\ ret.idx + 1 < Len(data) /\ pre.pos >= 1

\* C7: a find_boundary call that finds no boundary returns none, with pos
\* increased by len(data) and window holding the last bytes of data.
C7_NoBoundaryAdvancesFully ==
    (Fed /\ Candidates = {}) =>
        /\ ret = None
        /\ state.pos = pre.pos + Len(data)
        /\ Len(data) >= 2 =>
              state.window = U8 * data[Len(data) - 1] + data[Len(data)]
        /\ Len(data) = 1 => state.window = U8 * (pre.window % U8) + data[1]

C7_Witness ==
    Fed /\ ~ret.some /\ Len(data) >= 2 /\ pre.pos >= 1 /\ pairSet # {}

\* C8: feeding an empty buffer returns no boundary and leaves pos and window
\* unchanged.
C8_EmptyInput == (Fed /\ data = <<>>) => (ret = None /\ state = pre)

C8_Witness == Fed /\ data = <<>> /\ pre.pos >= 1 /\ pre.window # 0

\* C9: construction with min_chunk_size < 2 fails and yields no detector, so
\* min_chunk_size >= 2 in every detector state; construction with
\* min_chunk_size >= 2 succeeds and starts with pos = 0 and window = 0.
C9_Construction ==
    /\ phase = "panicked" <=> (phase # "init" /\ argMin < 2)
    /\ Live <=> (phase # "init" /\ argMin >= 2)
    /\ phase = "panicked" => last = "none"
    /\ Live => (min_chunk_size = argMin /\ min_chunk_size >= 2)
    /\ (Live /\ last = "new") => (state.pos = 0 /\ state.window = 0)

C9_Witness == phase = "panicked" /\ argMin = 1

\* C10: detectors built with the same min_chunk_size from pair sequences that
\* hold the same pairs, in any order and with any multiplicity, have the same
\* bitmap and return the same results.
C10_PairSetOnly ==
    Live =>
        \A qs \in PairSeqs :
            Range(qs) = pairSet =>
                \E arr \in {BuildBitmap(EmptyBitmap, qs)} :
                    /\ arr = frequent_byte_pairs
                    /\ last = "feed" =>
                          \E r \in {find_boundary(arr, min_chunk_size, pre, data)} :
                              r.state = state /\ r.ret = ret

C10_Witness ==
    /\ Fed /\ ret.some
    /\ \E qs \in PairSeqs : Range(qs) = pairSet /\ Len(qs) = 2 /\ qs[1] = qs[2]

\* The sequences of exactly n bytes.
Fillers(n) == [1..n -> Bytes]

\* What a fresh detector with the single pair p and minimum size m returns, fed
\* the filler bytes in one call and then <<x, y>> in another.
AfterFiller(p, m, filler, x, y) ==
    LET arr == BuildBitmap(EmptyBitmap, <<p>>)
        f == find_boundary(arr, m, DefaultState, filler)
    IN  [filler |-> f.ret, pair |-> find_boundary(arr, m, f.state, <<x, y>>).ret]

\* C11: with a single registered pair (a,b), after min_chunk_size - 2 filler
\* bytes fed to a fresh detector, feeding two bytes (x,y) reports a boundary
\* at y exactly when (x,y) = (a,b); the reversed pair (b,a) is not reported.
\* Checked on the run of the detector, and at construction for every pair of
\* Bytes as the registered pair.
C11_SolePair ==
    /\ (Fed /\ Cardinality(pairSet) = 1 /\ Len(data) = 2
           /\ Len(PreHist) = min_chunk_size - 2) =>
          ret = IF <<data[1], data[2]>> \in pairSet THEN Some(1) ELSE None
    /\ (Live /\ last = "new") =>
          \A a, b, x, y \in Bytes : \A filler \in Fillers(min_chunk_size - 2) :
              AfterFiller(<<a, b>>, min_chunk_size, filler, x, y)
                = [filler |-> None,
                   pair |-> IF <<x, y>> = <<a, b>> THEN Some(1) ELSE None]

C11_Witness ==
    /\ Fed /\ pairSet = {<<65, 66>>} /\ min_chunk_size = 3
    /\ Len(PreHist) = 1 /\ data = <<66, 65>> /\ ret = None

C13_Window ==
    Live =>
        /\ state.pos = 0 => state.window = 0
        /\ state.pos >= 1 => state.window % U8 = hist[Len(hist)]
        /\ state.pos >= 2 => state.window \div U8 = hist[Len(hist) - 1]
        /\ state.pos = 1 => state.window \div U8 = 0
        /\ \A b \in Bytes :
              ingest(state, b).window = (state.window * 256 + b) % 65536

C13_Witness ==
    /\ Live /\ state.pos >= 3 /\ hist[Len(hist) - 2] # 0
    /\ state.window = U8 * hist[Len(hist) - 1] + hist[Len(hist)]

\* The calls of ingest since the last reset before the last find_boundary call.
PreIngests == ingests - Len(run.ingested)

\* C14: whenever is_popular_pair is evaluated in find_boundary at least 2 bytes
\* have been ingested since the last reset or construction, and the window
\* tested is made of the two bytes ingested last; a first byte x after a
\* reset or construction is not reported for a registered pair (0x00, x).
C14_TestOnRealPair ==
    Fed =>
        /\ \A k \in 1..Len(run.tested) :
              LET t == run.tested[k]
              IN  /\ PreIngests + t.idx + 1 >= 2
                  /\ t.window = U8 * PrevByte(t.idx) + data[t.idx + 1]
        /\ (PreIngests = 0 /\ data # <<>> /\ <<0, data[1]>> \in pairSet) =>
              ret # Some(0)

C14_Witness ==
    /\ Fed /\ PreIngests = 0 /\ <<0, 65>> \in pairSet /\ data = <<65, 67>>
    /\ min_chunk_size = 2 /\ Len(run.tested) = 1 /\ ret = None

\* Bit number bit of the cell value v.
BitOf(v, bit) == (v \div Pow2(bit)) % 2

\* The 16-bit values.
Words == 0..(U16 - 1)

\* C15: after construction, for every 16-bit value p = (b1 << 8) | b2, bit p % 8
\* of cell p / 8 of the bitmap is set, and is_popular_pair(p) holds, exactly
\* when (b1,b2) was among the supplied pairs; distinct values have distinct
\* (cell, bit) addresses.
C15_Bitmap ==
    /\ (Live /\ last = "new") =>
          \A p \in Words :
              LET ix == byte_pair_to_bitfield_index(p)
                  in == <<p \div U8, p % U8>> \in pairSet
              IN  /\ (BitOf(Cell(frequent_byte_pairs, p \div 8), p % 8) = 1) <=> in
                  /\ is_popular_pair(frequent_byte_pairs, p) <=> in
                  /\ ix[2] \in 0..7 /\ 8 * ix[1] + ix[2] = p
    /\ Live =>
          \A q \in PairPool \cup {<<state.window \div U8, state.window % U8>>} :
              is_popular_pair(frequent_byte_pairs, PackPair(q)) <=> q \in pairSet

C15_Witness ==
    /\ Live /\ last = "new" /\ pairSet = PairPool
    /\ is_popular_pair(frequent_byte_pairs, 65)
    /\ is_popular_pair(frequent_byte_pairs, 16706)

\* C16: find_boundary and reset leave the bitmap and min_chunk_size as the
\* constructor set them; of the detector only pos and window change.
C16_ConfigurationFrozen ==
    [][Live => /\ frequent_byte_pairs' = frequent_byte_pairs
               /\ min_chunk_size' = min_chunk_size]_vars

C16_Witness ==
    /\ Fed /\ protocol = "resumed" /\ ret.some /\ pairSet = PairPool
    /\ state # DefaultState

\* The bitmap access at the address of val stays inside the array and shifts
\* 0b1 by less than the width of a cell.
AccessInRange(val) ==
    LET ix == byte_pair_to_bitfield_index(val)
    IN  ix[1] \in CellIndices /\ ix[2] \in 0..7

BoundariesBefore == Len(boundaries) - (IF ret.some THEN 1 ELSE 0)

\* The indices of data whose byte completes a registered pair.
PairEnds ==
    {i \in 0..(Len(data) - 1) :
        (i > 0 \/ PreHist # <<>>) /\ <<PrevByte(i), data[i + 1]>> \in pairSet}

\* C18: while the caller has not called reset after a reported boundary, pos
\* stays >= min_chunk_size and find_boundary reports the next byte that
\* completes a registered pair, whatever its distance from the last boundary,
\* the byte right after it included.
C18_NoSpacingWithoutReset ==
    /\ (Live /\ Len(boundaries) >= 1) => state.pos >= min_chunk_size
    /\ (Fed /\ BoundariesBefore >= 1) =>
          /\ pre.pos >= min_chunk_size
          /\ ret = IF PairEnds = {} THEN None ELSE Some(Min(PairEnds))

C18_Witness ==
    /\ Fed /\ Len(boundaries) = 2 /\ boundaries[2] = boundaries[1] + 1
    /\ ret = Some(0)

\* High window bytes tried against the one the detector had.
HighBytes == Bytes \cup {1, 255}

\* The last find_boundary call made with h as the high 8 bits of window.
TwinRun(h) ==
    find_boundary(frequent_byte_pairs, min_chunk_size,
                  [pos |-> pre.pos, window |-> U8 * h + (pre.window % U8)], data)

\* C19: the result of find_boundary does not depend on the high 8 bits of
\* window at the start of the call: a detector with the same pair set,
\* min_chunk_size, pos and low window byte returns the same result, ends with
\* the same pos and low window byte, and with the same window once the call
\* ingested at least 2 bytes.
C19_HighByteIrrelevant ==
    Fed =>
        \A h \in HighBytes :
            \E t \in {TwinRun(h)} :
                /\ t.ret = ret
                /\ t.state.pos = state.pos
                /\ t.state.window % U8 = state.window % U8
                /\ Len(t.ingested) >= 2 => t.state.window = state.window

C19_Witness ==
    /\ Fed /\ ret.some /\ Len(run.ingested) >= 2 /\ pre.pos >= 1
    /\ pre.window # 0 /\ TwinRun(255).state = state

\* C20: a find_boundary call ends after at most len(data) calls of ingest, each
\* on the next byte of data from left to right, no byte twice; reset ends in
\* every detector state.
C20_Termination ==
    /\ Fed =>
          /\ Len(run.ingested) <= Len(data)
          /\ \A k \in 1..Len(run.ingested) :
                run.ingested[k] = <<k - 1, data[k]>>
          /\ Len(run.tested) <= Len(run.ingested)
    /\ Live => ENABLED Reset

C20_Witness ==
    /\ Fed /\ Len(data) = 3 /\ Len(run.ingested) = 3 /\ ~ret.some
    /\ data[1] # data[2] /\ data[2] # data[3]

====
